---- MODULE Spec2Model ----
(***************************************************************************)
(* Model of simulateSimpleStrategy (src/simple.js): the discrete-event     *)
(* simulation of the simple merge-queue strategy.  One action per event    *)
(* type dispatched by the main loop, plus the finalization after the loop. *)
(***************************************************************************)
EXTENDS Integers, Sequences, FiniteSets, TLC

\* ------------------------------------------------------------------ bounds
MaxPRs == 3
MaxBatchSize == 2
MaxEventsPerPR == 50
\* Input domains of a PR descriptor, as the generator of renderer.js draws
\* them: arrival gaps >= 0, build times >= 1.  <<fast, full>> build times:
\* a quick fast build with a slow full build, and the reverse.
QueueGaps == {0, 2}
BuildTimes == {<<1, 4>>, <<3, 2>>}

\* JavaScript's undefined, for timestamps and fields not (yet) set.
Undefined == -1

VARIABLES
    pullRequests,   \* id -> PR descriptor (the input, ids assigned in order)
    maxBatchSize,   \* the input batch size
    items,          \* eventQueue.items: sequence of [key, value]
    nextEventId,
    nextBatchId,
    currentBatch,   \* state.currentBatch: [prs, prEntries, fastBuildStatus]
    activeBatches,  \* state.activeBatches: sequence of batch ids (references)
    prAppearances,  \* state.prAppearances
    prEvicted,      \* the PR objects' evicted/evictedTime/evictedReason
    batches,        \* result.batches: the batch objects, batches[id + 1]
    mergedBatches,  \* result.pullRequests: sequence of batch ids (references)
    Builds,         \* result.Builds
    Evictions,      \* result.Evictions
    pc,             \* "loop" while the event loop runs, "done" after return
    admissions,     \* history: every BatchEntry created, with its creator
    cascades,       \* history: every resetQueue invocation
    dispatched      \* history: the number of events removeMin has returned

vars == <<pullRequests, maxBatchSize, items, nextEventId, nextBatchId,
          currentBatch, activeBatches, prAppearances, prEvicted, batches,
          mergedBatches, Builds, Evictions, pc, admissions, cascades,
          dispatched>>

\* ----------------------------------------------------------------- helpers
Range(s) == {s[i] : i \in 1..Len(s)}

RECURSIVE Filter(_, _)
Filter(s, keep) ==
    IF s = <<>> THEN <<>>
    ELSE IF Head(s) \in keep THEN <<Head(s)>> \o Filter(Tail(s), keep)
    ELSE Filter(Tail(s), keep)

PRIds == DOMAIN pullRequests

\* The batch object with the given id (result.batches holds every batch).
Batch(st, id) == st.batches[id + 1]

EmptyBatch == [prs |-> <<>>, prEntries |-> <<>>, fastBuildStatus |-> <<>>]

\* ------------------------------------------------------------- eventQueue
\* Array.prototype.sort with (a, b) => a.key - b.key is stable: insertion
\* sort that keeps equal keys in their order.
RECURSIVE InsertSortedBeforeEqual(_, _)
InsertSortedBeforeEqual(sorted, item) ==
    IF sorted = <<>> THEN <<item>>
    ELSE IF item.key <= Head(sorted).key
         THEN <<item>> \o sorted
         ELSE <<Head(sorted)>> \o InsertSortedBeforeEqual(Tail(sorted), item)

RECURSIVE InsertSorted(_, _)
InsertSorted(sorted, item) ==
    IF sorted = <<>> THEN <<item>>
    ELSE IF item.key < Head(sorted).key
         THEN <<item>> \o sorted
         ELSE <<Head(sorted)>> \o InsertSorted(Tail(sorted), item)

RECURSIVE SortByKey(_)
SortByKey(s) ==
    IF s = <<>> THEN <<>>
    ELSE InsertSorted(SortByKey(SubSeq(s, 1, Len(s) - 1)), s[Len(s)])

\* eventQueue.insert(time, event)
insert(st, time, event) ==
    [st EXCEPT
        !.items = SortByKey(Append(st.items,
                     [key |-> time,
                      value |-> event @@ [eventId |-> st.nextEventId]])),
        !.nextEventId = st.nextEventId + 1]

\* eventQueue.removeMatching(predicate): the positions removed.
RECURSIVE KeepItems(_, _)
KeepItems(s, removedPos) ==
    IF s = <<>> THEN <<>>
    ELSE LET n == Len(s)
             front == KeepItems(SubSeq(s, 1, n - 1), removedPos)
         IN IF n \in removedPos THEN front ELSE Append(front, s[n])

\* ------------------------------------------------------------ state record
\* The mutable simulation state threaded through the helpers.
Cur ==
    [items |-> items, nextEventId |-> nextEventId, nextBatchId |-> nextBatchId,
     currentBatch |-> currentBatch, activeBatches |-> activeBatches,
     prAppearances |-> prAppearances, prEvicted |-> prEvicted,
     batches |-> batches, mergedBatches |-> mergedBatches,
     Builds |-> Builds, Evictions |-> Evictions,
     admissions |-> admissions, cascades |-> cascades,
     dispatched |-> dispatched]

Commit(st) ==
    /\ items' = st.items
    /\ nextEventId' = st.nextEventId
    /\ nextBatchId' = st.nextBatchId
    /\ currentBatch' = st.currentBatch
    /\ activeBatches' = st.activeBatches
    /\ prAppearances' = st.prAppearances
    /\ prEvicted' = st.prEvicted
    /\ batches' = st.batches
    /\ mergedBatches' = st.mergedBatches
    /\ Builds' = st.Builds
    /\ Evictions' = st.Evictions
    /\ admissions' = st.admissions
    /\ cascades' = st.cascades
    /\ dispatched' = st.dispatched

\* ----------------------------------------------------- isCurrentBatchReady
isCurrentBatchReadyWhenFull(st) ==
    /\ Len(st.currentBatch.prs) >= maxBatchSize
    /\ \A i \in 1..Len(st.currentBatch.prs) :
          LET id == st.currentBatch.prs[i]
              fbs == st.currentBatch.fastBuildStatus
          IN /\ id \in DOMAIN fbs
             /\ fbs[id].completed
             /\ fbs[id].passed

isCurrentBatchReady(st) ==
    /\ Len(st.currentBatch.prs) # 0
    /\ \A i \in 1..Len(st.currentBatch.prs) :
          LET id == st.currentBatch.prs[i]
              fbs == st.currentBatch.fastBuildStatus
          IN /\ id \in DOMAIN fbs
             /\ fbs[id].completed
             /\ fbs[id].passed

\* ------------------------------------------------------- closeCurrentBatch
LastFullBuildTime(prs) ==
    IF prs = <<>> THEN 0 ELSE pullRequests[prs[Len(prs)]].FullBuildTime

RECURSIVE MaxFullBuildTime(_)
MaxFullBuildTime(prs) ==
    IF prs = <<>> THEN 0
    ELSE LET m == MaxFullBuildTime(SubSeq(prs, 1, Len(prs) - 1))
             t == pullRequests[prs[Len(prs)]].FullBuildTime
         IN IF t > m THEN t ELSE m

AllPass(prs) == \A i \in 1..Len(prs) : pullRequests[prs[i]].FullBuildPasses

NewBatch(st, currentTime) ==
    [id |-> st.nextBatchId,
     prs |-> st.currentBatch.prs,
     prEntries |-> st.currentBatch.prEntries,
     batchCreateTime |-> currentTime,
     status |-> "building",
     fullBuildTime |-> MaxFullBuildTime(st.currentBatch.prs),
     fullBuildPasses |-> AllPass(st.currentBatch.prs),
     buildCompleteTime |-> Undefined,
     completedTime |-> Undefined,
     failedTime |-> Undefined,
     canceledTime |-> Undefined]

closeCurrentBatchNotActive(st, currentTime) ==
    IF Len(st.currentBatch.prs) = 0 THEN st
    ELSE LET batch == NewBatch(st, currentTime)
             fullBuildEndTime == currentTime + batch.fullBuildTime
             st1 == [st EXCEPT
                        !.nextBatchId = st.nextBatchId + 1,
                        !.batches = Append(st.batches, batch)]
             st2 == insert(st1, fullBuildEndTime,
                        [time |-> fullBuildEndTime,
                         type |-> "Full build completion",
                         batchId |-> batch.id,
                         passed |-> batch.fullBuildPasses])
         IN [st2 EXCEPT !.currentBatch = EmptyBatch]

closeCurrentBatch(st, currentTime) ==
    IF Len(st.currentBatch.prs) = 0 THEN st
    ELSE LET batch == NewBatch(st, currentTime)
             fullBuildEndTime == currentTime + batch.fullBuildTime
             st1 == [st EXCEPT
                        !.nextBatchId = st.nextBatchId + 1,
                        !.activeBatches = Append(st.activeBatches, batch.id),
                        !.batches = Append(st.batches, batch)]
             st2 == insert(st1, fullBuildEndTime,
                        [time |-> fullBuildEndTime,
                         type |-> "Full build completion",
                         batchId |-> batch.id,
                         passed |-> batch.fullBuildPasses])
         IN [st2 EXCEPT !.currentBatch = EmptyBatch]

\* -------------------------------------------------------------- admission
\* Lines 318-346 (PR commit) and 278-306 (resetQueue): the same admission
\* code, copied in both places.  `via` names the copy that ran (history).
\* Lines 279 and 319: has this PR appeared before?
IsRequeuedOffByOne(st, id) == st.prAppearances[id] > 1

IsRequeued(st, id) == st.prAppearances[id] > 0

\* Lines 280 and 320: state.prAppearances[pr.id]++
CountAppearanceNever(appearances, id) == appearances

CountAppearance(appearances, id) == [appearances EXCEPT ![id] = @ + 1]

\* Lines 304 and 344: the batch-full check.
BatchFullNever(st) == FALSE

BatchFullOffByOne(st) == Len(st.currentBatch.prs) > maxBatchSize

BatchFull(st) == Len(st.currentBatch.prs) >= maxBatchSize

Admit(st, id, currentTime, via) ==
    LET pr == pullRequests[id]
        isRequeued == IsRequeued(st, id)
        entry == [pr |-> id, queueTime |-> pr.queuetime,
                  isRequeued |-> isRequeued]
        fbs == st.currentBatch.fastBuildStatus
        st1 == [st EXCEPT
                   !.prAppearances = CountAppearance(@, id),
                   !.currentBatch =
                       [prs |-> Append(@.prs, id),
                        prEntries |-> Append(@.prEntries, entry),
                        fastBuildStatus |->
                            [k \in (DOMAIN fbs) \cup {id} |->
                                IF k = id
                                THEN [completed |-> FALSE, passed |-> FALSE]
                                ELSE fbs[k]]],
                   !.admissions = Append(@, [via |-> via, time |-> currentTime,
                                             entry |-> entry])]
        fastBuildEndTime == currentTime + pr.FastBuildTime
        st2 == insert(st1, fastBuildEndTime,
                   [time |-> fastBuildEndTime,
                    type |-> "Fast build completion",
                    prId |-> id,
                    passed |-> pr.FastBuildPasses])
    IN IF BatchFull(st2)
       THEN closeCurrentBatch(st2, currentTime)
       ELSE st2

\* -------------------------------------------------------------- resetQueue
\* The predicate of removeMatching (lines 235-246), read against the active
\* set as it stands when resetQueue is entered.
PurgeMatchesFastOnly(st, event, prIds) ==
    /\ event.type = "Fast build completion"
    /\ event.prId \in prIds

PurgeMatches(st, event, prIds) ==
    \/ /\ event.type = "Fast build completion"
       /\ event.prId \in prIds
    \/ /\ event.type = "Full build completion"
       /\ \E i \in 1..Len(st.activeBatches) :
             /\ st.activeBatches[i] = event.batchId
             /\ Range(Batch(st, st.activeBatches[i]).prs) \cap prIds # {}

RECURSIVE CanceledBuilds(_, _)
CanceledBuilds(removed, currentTime) ==
    IF removed = <<>> THEN <<>>
    ELSE <<[type |-> IF Head(removed).value.type = "Fast build completion"
                     THEN "fast" ELSE "full",
            status |-> "canceled",
            time |-> currentTime]>>
         \o CanceledBuilds(Tail(removed), currentTime)

\* Lines 257-265: the active batches that hold an affected PR.
AffectedWhenAllIn(st, prIds) ==
    {id \in Range(st.activeBatches) : prIds \subseteq Range(Batch(st, id).prs)}

AffectedOrEarlier(st, prIds) ==
    {id \in Range(st.activeBatches) :
        \E later \in Range(st.activeBatches) :
            /\ id <= later
            /\ Range(Batch(st, later).prs) \cap prIds # {}}

Affected(st, prIds) ==
    {id \in Range(st.activeBatches) : Range(Batch(st, id).prs) \cap prIds # {}}

CancelBatchResetsBuild(batch, currentTime) ==
    [batch EXCEPT !.status = "canceled", !.canceledTime = currentTime,
                  !.fullBuildTime = 0, !.fullBuildPasses = FALSE]

CancelBatch(batch, currentTime) ==
    [batch EXCEPT !.status = "canceled", !.canceledTime = currentTime]

\* Lines 267-274: clear the current batch if it contains affected PRs.
ClearCurrentNever(st, prIds) == st.currentBatch

ClearCurrent(st, prIds) ==
    IF Range(st.currentBatch.prs) \cap prIds # {}
    THEN EmptyBatch ELSE st.currentBatch

RECURSIVE ReadmitAllBackwards(_, _, _)
ReadmitAllBackwards(st, prs, currentTime) ==
    IF prs = <<>> THEN st
    ELSE ReadmitAllBackwards(
             Admit(st, prs[Len(prs)], currentTime, "resetQueue"),
             SubSeq(prs, 1, Len(prs) - 1), currentTime)

RECURSIVE ReadmitAll(_, _, _)
ReadmitAll(st, prs, currentTime) ==
    IF prs = <<>> THEN st
    ELSE ReadmitAll(Admit(st, Head(prs), currentTime, "resetQueue"),
                    Tail(prs), currentTime)

resetQueue(st, prsToRebatch, currentTime) ==
    LET prIds == Range(prsToRebatch)
        removedPos == {i \in 1..Len(st.items) :
                          PurgeMatches(st, st.items[i].value, prIds)}
        removed == KeepItems(st.items, (1..Len(st.items)) \ removedPos)
        affected == Affected(st, prIds)
        st1 == [st EXCEPT
                   !.items = KeepItems(st.items, removedPos),
                   !.Builds = @ \o CanceledBuilds(removed, currentTime),
                   !.batches = [i \in 1..Len(st.batches) |->
                                   IF st.batches[i].id \in affected
                                   THEN CancelBatch(st.batches[i], currentTime)
                                   ELSE st.batches[i]],
                   !.activeBatches =
                       Filter(st.activeBatches,
                              Range(st.activeBatches) \ affected),
                   !.currentBatch = ClearCurrent(st, prIds),
                   !.cascades = Append(@, [time |-> currentTime,
                                           prs |-> prsToRebatch])]
    IN ReadmitAll(st1, prsToRebatch, currentTime)

\* -------------------------------------------------------------------- Init
\* The PR lists of the generator (renderer.js lines 538-575): queue times
\* accumulate the gaps between arrivals; outcomes and build times are free.
RECURSIVE QueueTimeOf(_, _)
QueueTimeOf(gaps, i) ==
    IF i = 0 THEN 0 ELSE QueueTimeOf(gaps, i - 1) + gaps[i]

PullRequestLists(n) ==
    {[i \in 0..(n - 1) |->
         [queuetime |-> QueueTimeOf(gaps, i),
          FastBuildTime |-> times[i][1],
          FastBuildPasses |-> fast[i],
          FullBuildTime |-> times[i][2],
          FullBuildPasses |-> full[i]]] :
        gaps \in [1..(n - 1) -> QueueGaps],
        times \in [0..(n - 1) -> BuildTimes],
        fast \in [0..(n - 1) -> BOOLEAN],
        full \in [0..(n - 1) -> BOOLEAN]}

\* Lines 127-133: one "PR commit" event per PR, inserted in input order.
RECURSIVE SeedQueue(_, _, _)
SeedQueue(st, prs, n) ==
    IF n = 0 THEN st
    ELSE LET id == n - 1
         IN insert(SeedQueue(st, prs, n - 1), prs[id].queuetime,
                   [time |-> prs[id].queuetime, type |-> "PR commit",
                    prId |-> id])

Init ==
    /\ \E n \in 0..MaxPRs : pullRequests \in PullRequestLists(n)
    /\ maxBatchSize \in 1..MaxBatchSize
    /\ LET seeded == SeedQueue([items |-> <<>>, nextEventId |-> 0],
                               pullRequests, Cardinality(DOMAIN pullRequests))
       IN /\ items = seeded.items
          /\ nextEventId = seeded.nextEventId
    /\ nextBatchId = 0
    /\ currentBatch = EmptyBatch
    /\ activeBatches = <<>>
    /\ prAppearances = [id \in DOMAIN pullRequests |-> 0]
    /\ prEvicted = [id \in DOMAIN pullRequests |->
                       [evicted |-> FALSE, evictedTime |-> Undefined,
                        evictedReason |-> "none"]]
    /\ batches = <<>>
    /\ mergedBatches = <<>>
    /\ Builds = <<>>
    /\ Evictions = <<>>
    /\ pc = "loop"
    /\ admissions = <<>>
    /\ cascades = <<>>
    /\ dispatched = 0

\* --------------------------------------------------------------- main loop
\* eventQueue.removeMin() of line 312.
NextEvent == Head(items).value

Popped == [Cur EXCEPT !.items = Tail(items), !.dispatched = @ + 1]

Evict(st, id, currentTime, reason) ==
    [st EXCEPT
        !.prEvicted[id] = [evicted |-> TRUE, evictedTime |-> currentTime,
                           evictedReason |-> reason],
        !.Evictions = Append(@, [prId |-> id, time |-> currentTime,
                                 reason |-> reason])]

\* Lines 315-347.
PRCommit ==
    /\ pc = "loop"
    /\ items # <<>>
    /\ NextEvent.type = "PR commit"
    /\ Commit(Admit(Popped, NextEvent.prId, NextEvent.time, "PR commit"))
    /\ UNCHANGED <<pullRequests, maxBatchSize, pc>>

\* Lines 352-357: the status is updated only if the PR has one.
UpdateFastStatus(st, event) ==
    IF event.prId \in DOMAIN st.currentBatch.fastBuildStatus
    THEN [st EXCEPT !.currentBatch.fastBuildStatus[event.prId] =
                        [completed |-> TRUE, passed |-> event.passed]]
    ELSE st

\* state.activeBatches.find(b => b.prs.some(p => p.id === pr.id)): the
\* position of the first such batch in the active set, 0 if none.
FindActiveWith(st, id) ==
    LET hits == {i \in 1..Len(st.activeBatches) :
                    id \in Range(Batch(st, st.activeBatches[i]).prs)}
    IN IF hits = {} THEN 0
       ELSE CHOOSE i \in hits : \A j \in hits : i <= j

\* The PRs of the active batches with a higher id, in active-set order.
RECURSIVE OtherBatchPRs(_, _, _)
OtherBatchPRs(st, active, batchId) ==
    IF active = <<>> THEN <<>>
    ELSE (IF Head(active) # batchId THEN Batch(st, Head(active)).prs
          ELSE <<>>)
         \o OtherBatchPRs(st, Tail(active), batchId)

RECURSIVE LaterBatchPRs(_, _, _)
LaterBatchPRs(st, active, batchId) ==
    IF active = <<>> THEN <<>>
    ELSE (IF Head(active) > batchId THEN Batch(st, Head(active)).prs
          ELSE <<>>)
         \o LaterBatchPRs(st, Tail(active), batchId)

\* Lines 376-378, Case 1.
RemoveFromCurrent(st, id) ==
    LET fbs == st.currentBatch.fastBuildStatus
    IN [st EXCEPT
           !.currentBatch.prs = Filter(@, Range(@) \ {id}),
           !.currentBatch.fastBuildStatus =
               [k \in (DOMAIN fbs) \ {id} |-> fbs[k]]]

\* Lines 380-403, Case 2.
FailActiveBatch(st, pos, id, currentTime) ==
    LET batchId == st.activeBatches[pos]
        st1 == [st EXCEPT !.batches[batchId + 1].status = "failed",
                          !.batches[batchId + 1].failedTime = currentTime]
        prsToRebatch ==
            Filter(Batch(st1, batchId).prs,
                   Range(Batch(st1, batchId).prs) \ {id})
            \o LaterBatchPRs(st1, st1.activeBatches, batchId)
            \o st1.currentBatch.prs
    IN resetQueue(st1, prsToRebatch, currentTime)

FastBuildFailed(st, id, currentTime) ==
    LET st1 == Evict(st, id, currentTime, "Fast build failed")
        isInCurrentBatch == id \in Range(st1.currentBatch.prs)
        pos == FindActiveWith(st1, id)
    IN IF isInCurrentBatch /\ pos = 0 THEN RemoveFromCurrent(st1, id)
       ELSE IF pos # 0 THEN FailActiveBatch(st1, pos, id, currentTime)
       ELSE st1

\* Lines 348-411.
FastBuildCompletion ==
    /\ pc = "loop"
    /\ items # <<>>
    /\ NextEvent.type = "Fast build completion"
    /\ LET event == NextEvent
           st1 == UpdateFastStatus(Popped, event)
       IN Commit(IF ~event.passed
                 THEN FastBuildFailed(st1, event.prId, event.time)
                 ELSE IF isCurrentBatchReady(st1)
                      THEN closeCurrentBatch(st1, event.time)
                      ELSE st1)
    /\ UNCHANGED <<pullRequests, maxBatchSize, pc>>

\* Lines 418-427.
FullBuildPassedKeepsActive(st, batchId, currentTime) ==
    [st EXCEPT
        !.batches[batchId + 1].status = "success",
        !.batches[batchId + 1].completedTime = currentTime,
        !.mergedBatches = Append(@, batchId)]

FullBuildPassedKeepsStatus(st, batchId, currentTime) ==
    [st EXCEPT
        !.batches[batchId + 1].completedTime = currentTime,
        !.mergedBatches = Append(@, batchId),
        !.activeBatches = Filter(@, Range(@) \ {batchId})]

FullBuildPassedThenResets(st, batchId, currentTime) ==
    resetQueue([st EXCEPT
                   !.batches[batchId + 1].status = "success",
                   !.batches[batchId + 1].completedTime = currentTime,
                   !.mergedBatches = Append(@, batchId),
                   !.activeBatches = Filter(@, Range(@) \ {batchId})],
               LaterBatchPRs(st, st.activeBatches, batchId)
                   \o st.currentBatch.prs,
               currentTime)

FullBuildPassed(st, batchId, currentTime) ==
    [st EXCEPT
        !.batches[batchId + 1].status = "success",
        !.batches[batchId + 1].completedTime = currentTime,
        !.mergedBatches = Append(@, batchId),
        !.activeBatches = Filter(@, Range(@) \ {batchId})]

RECURSIVE EvictAll(_, _, _)
EvictAll(st, prs, currentTime) ==
    IF prs = <<>> THEN st
    ELSE EvictAll(Evict(st, Head(prs), currentTime, "Full build failed"),
                  Tail(prs), currentTime)

\* Lines 445-452: everything after the failed batch, then the current batch.
FullFailureCascadeWithMembers(st, batchId) ==
    Filter(Batch(st, batchId).prs,
           {id \in PRIds : pullRequests[id].FullBuildPasses})
    \o LaterBatchPRs(st, st.activeBatches, batchId) \o st.currentBatch.prs

FullFailureCascadeWithBatch(st, batchId) ==
    Batch(st, batchId).prs
    \o LaterBatchPRs(st, st.activeBatches, batchId) \o st.currentBatch.prs

FullFailureCascade(st, batchId) ==
    LaterBatchPRs(st, st.activeBatches, batchId) \o st.currentBatch.prs

\* Lines 429-454.
FullBuildFailed(st, batchId, currentTime) ==
    LET st1 == [st EXCEPT !.batches[batchId + 1].status = "failed",
                          !.batches[batchId + 1].failedTime = currentTime]
        st2 == EvictAll(st1, Batch(st1, batchId).prs, currentTime)
        prsToRebatch == FullFailureCascade(st2, batchId)
    IN resetQueue(st2, prsToRebatch, currentTime)

\* Lines 412-456.
FullBuildCompletion ==
    /\ pc = "loop"
    /\ items # <<>>
    /\ NextEvent.type = "Full build completion"
    /\ LET event == NextEvent
           st0 == Popped
       IN IF event.batchId \notin Range(st0.activeBatches)
          THEN Commit(st0)   \* Already canceled
          ELSE LET st1 == [st0 EXCEPT
                              !.batches[event.batchId + 1].buildCompleteTime =
                                  event.time]
               IN Commit(IF event.passed
                         THEN FullBuildPassed(st1, event.batchId, event.time)
                         ELSE FullBuildFailed(st1, event.batchId, event.time))
    /\ UNCHANGED <<pullRequests, maxBatchSize, pc>>

\* Lines 459-475: the loop has ended; flush the current batch and return.
IncompleteBatch ==
    [id |-> nextBatchId,
     prs |-> currentBatch.prs,
     prEntries |-> currentBatch.prEntries,
     batchCreateTime |-> Undefined,
     status |-> "incomplete",
     fullBuildTime |-> Undefined,
     fullBuildPasses |-> Undefined,
     buildCompleteTime |-> Undefined,
     completedTime |-> Undefined,
     failedTime |-> Undefined,
     canceledTime |-> Undefined]

FinalizeAlways ==
    /\ pc = "loop"
    /\ items = <<>>
    /\ batches' = Append(batches, IncompleteBatch)
    /\ nextBatchId' = nextBatchId + 1
    /\ pc' = "done"
    /\ UNCHANGED <<pullRequests, maxBatchSize, items, nextEventId,
                   currentBatch, activeBatches, prAppearances, prEvicted,
                   mergedBatches, Builds, Evictions, admissions, cascades,
                   dispatched>>

Finalize ==
    /\ pc = "loop"
    /\ items = <<>>
    /\ IF Len(currentBatch.prs) > 0
       THEN /\ batches' = Append(batches, IncompleteBatch)
            /\ nextBatchId' = nextBatchId + 1
       ELSE UNCHANGED <<batches, nextBatchId>>
    /\ pc' = "done"
    /\ UNCHANGED <<pullRequests, maxBatchSize, items, nextEventId,
                   currentBatch, activeBatches, prAppearances, prEvicted,
                   mergedBatches, Builds, Evictions, admissions, cascades,
                   dispatched>>

Next == PRCommit \/ FastBuildCompletion \/ FullBuildCompletion \/ Finalize

Spec == Init /\ [][Next]_vars

\* -------------------------------------------------------------- wide batches
\* The same call with one PR fewer and a batch size up to one more than
\* MaxBatchSize, so that a current batch can hold two PRs between events.
InitWide ==
    /\ \E n \in 0..(MaxPRs - 1) : pullRequests \in PullRequestLists(n)
    /\ maxBatchSize \in 1..(MaxBatchSize + 1)
    /\ LET seeded == SeedQueue([items |-> <<>>, nextEventId |-> 0],
                               pullRequests, Cardinality(DOMAIN pullRequests))
       IN /\ items = seeded.items
          /\ nextEventId = seeded.nextEventId
    /\ nextBatchId = 0
    /\ currentBatch = EmptyBatch
    /\ activeBatches = <<>>
    /\ prAppearances = [id \in DOMAIN pullRequests |-> 0]
    /\ prEvicted = [id \in DOMAIN pullRequests |->
                       [evicted |-> FALSE, evictedTime |-> Undefined,
                        evictedReason |-> "none"]]
    /\ batches = <<>>
    /\ mergedBatches = <<>>
    /\ Builds = <<>>
    /\ Evictions = <<>>
    /\ pc = "loop"
    /\ admissions = <<>>
    /\ cascades = <<>>
    /\ dispatched = 0

SpecWide == InitWide /\ [][Next]_vars

\* ---------------------------------------------------------------- fairness
\* The number of events ever inserted is capped so that the state space
\* stays finite whatever the handlers schedule; a run that reaches the cap
\* with events still queued stops there and never returns.
EventCap == MaxEventsPerPR * Cardinality(PRIds)

\* Before the call of simulateSimpleStrategy nothing exists.
InitCall ==
    /\ pullRequests = <<>>
    /\ maxBatchSize = 1
    /\ items = <<>>
    /\ nextEventId = 0
    /\ nextBatchId = 0
    /\ currentBatch = EmptyBatch
    /\ activeBatches = <<>>
    /\ prAppearances = <<>>
    /\ prEvicted = <<>>
    /\ batches = <<>>
    /\ mergedBatches = <<>>
    /\ Builds = <<>>
    /\ Evictions = <<>>
    /\ pc = "call"
    /\ admissions = <<>>
    /\ cascades = <<>>
    /\ dispatched = 0

\* Lines 82-161: the call binds the arguments and builds the queue, the
\* state and the result, as Init describes them.
simulateSimpleStrategy ==
    /\ pc = "call"
    /\ \E n \in 0..MaxPRs : pullRequests' \in PullRequestLists(n)
    /\ maxBatchSize' \in 1..MaxBatchSize
    /\ LET seeded == SeedQueue([items |-> <<>>, nextEventId |-> 0],
                               pullRequests',
                               Cardinality(DOMAIN pullRequests'))
       IN /\ items' = seeded.items
          /\ nextEventId' = seeded.nextEventId
    /\ prAppearances' = [id \in DOMAIN pullRequests' |-> 0]
    /\ prEvicted' = [id \in DOMAIN pullRequests' |->
                        [evicted |-> FALSE, evictedTime |-> Undefined,
                         evictedReason |-> "none"]]
    /\ pc' = "loop"
    /\ UNCHANGED <<nextBatchId, currentBatch, activeBatches, batches,
                   mergedBatches, Builds, Evictions, admissions, cascades,
                   dispatched>>

NextCapped ==
    \/ simulateSimpleStrategy
    \/ nextEventId <= EventCap /\ PRCommit
    \/ nextEventId <= EventCap /\ FastBuildCompletion
    \/ nextEventId <= EventCap /\ FullBuildCompletion
    \/ nextEventId <= EventCap /\ Finalize

\* Lines 310-314 and 459: what every step of the program does to its
\* position and to the count of dispatched events.  The call enters the
\* loop; while (!eventQueue.isEmpty()) removes one event per iteration; with
\* the queue empty the function finalizes and returns.
LoopStep ==
    \/ /\ pc = "call"
       /\ pc' = "loop"
       /\ dispatched' = dispatched
    \/ /\ pc = "loop"
       /\ nextEventId <= EventCap
       /\ items # <<>>
       /\ pc' = "loop"
       /\ dispatched' = dispatched + 1
    \/ /\ pc = "loop"
       /\ nextEventId <= EventCap
       /\ items = <<>>
       /\ pc' = "done"
       /\ dispatched' = dispatched

\* The function runs without waiting for anything: a step that can be taken
\* is taken.  Every step of NextCapped is a LoopStep that changes
\* <<pc, dispatched>>, and a LoopStep is possible exactly when a step of
\* NextCapped is, so this is weak fairness of NextCapped.
FairSpec ==
    InitCall /\ [][NextCapped]_vars /\ WF_<<pc, dispatched>>(LoopStep)

\* ----------------------------------------------------------- simulateQueue
\* renderer.js lines 868-900: the Simulate button reads the batch size field
\* and the PR list, validates them and calls simulateSimpleStrategy.
\* What parseInt makes of the maxBatchSize field: NaN or an integer.
ParsedFields ==
    {[isNaN |-> TRUE, n |-> 0]}
    \cup {[isNaN |-> FALSE, n |-> k] : k \in -1..MaxBatchSize}

\* Line 871: parseInt(...) || 1 replaces the falsy values NaN and 0 by 1.
OrOne(parsed) == IF parsed.isNaN \/ parsed.n = 0 THEN 1 ELSE parsed.n

\* Before the click: the form holds the inputs; before the call the
\* variable maxBatchSize holds the parsed field.  Nothing has run.
InitUI ==
    /\ \E n \in 0..MaxPRs : pullRequests \in PullRequestLists(n)
    /\ maxBatchSize \in ParsedFields
    /\ items = <<>>
    /\ nextEventId = 0
    /\ nextBatchId = 0
    /\ currentBatch = EmptyBatch
    /\ activeBatches = <<>>
    /\ prAppearances = <<>>
    /\ prEvicted = <<>>
    /\ batches = <<>>
    /\ mergedBatches = <<>>
    /\ Builds = <<>>
    /\ Evictions = <<>>
    /\ pc = "ui"
    /\ admissions = <<>>
    /\ cascades = <<>>
    /\ dispatched = 0

\* Lines 878-881 reject an empty list with an alert and return null; line
\* 883 calls the engine, which seeds its queue (simple.js lines 127-152).
simulateQueue ==
    /\ pc = "ui"
    /\ IF Cardinality(DOMAIN pullRequests) = 0
       THEN /\ pc' = "alert"
            /\ UNCHANGED <<maxBatchSize, items, nextEventId, prAppearances,
                           prEvicted>>
       ELSE /\ pc' = "loop"
            /\ maxBatchSize' = OrOne(maxBatchSize)
            /\ LET seeded == SeedQueue([items |-> <<>>, nextEventId |-> 0],
                                       pullRequests,
                                       Cardinality(DOMAIN pullRequests))
               IN /\ items' = seeded.items
                  /\ nextEventId' = seeded.nextEventId
            /\ prAppearances' = [id \in DOMAIN pullRequests |-> 0]
            /\ prEvicted' = [id \in DOMAIN pullRequests |->
                                [evicted |-> FALSE, evictedTime |-> Undefined,
                                 evictedReason |-> "none"]]
    /\ UNCHANGED <<pullRequests, nextBatchId, currentBatch, activeBatches,
                   batches, mergedBatches, Builds, Evictions, admissions,
                   cascades, dispatched>>

NextUI == simulateQueue \/ Next

SpecUI == InitUI /\ [][NextUI]_vars

\* ================================================================= claims
Returned == pc = "done"

BatchIdxs == 1..Len(batches)

InSuccessBatch(id) ==
    \E i \in BatchIdxs :
        batches[i].status = "success" /\ id \in Range(batches[i].prs)

HasEviction(id) == \E k \in 1..Len(Evictions) : Evictions[k].prId = id

InIncompleteBatch(id) ==
    \E i \in BatchIdxs :
        batches[i].status = "incomplete" /\ id \in Range(batches[i].prs)

Dispositions(id) ==
    (IF InSuccessBatch(id) THEN {"success"} ELSE {})
    \cup (IF HasEviction(id) THEN {"evicted"} ELSE {})
    \cup (IF InIncompleteBatch(id) THEN {"incomplete"} ELSE {})

\* C1: when simulateSimpleStrategy returns, every PR is in exactly one of:
\* a 'success' batch, an eviction record, the final 'incomplete' batch.
C1_ExactlyOneDisposition ==
    Returned => \A id \in PRIds : Cardinality(Dispositions(id)) = 1

\* C2: between events, a batch whose status is no longer 'building' keeps
\* that status in every later event (and so never returns to 'building').
C2_TerminalStatusIsFinal ==
    [][\A i \in BatchIdxs :
          batches[i].status # "building"
              => batches'[i].status = batches[i].status]_vars

\* C3: the fullBuildTime and fullBuildPasses recorded when a batch is closed
\* are never modified by any later event.
C3_BuildParametersFrozen ==
    [][\A i \in BatchIdxs :
          /\ batches'[i].fullBuildTime = batches[i].fullBuildTime
          /\ batches'[i].fullBuildPasses = batches[i].fullBuildPasses]_vars

\* C3 witness: a closed batch has been failed and another canceled, so
\* statuses changed after the close.
C3_Witness ==
    /\ \E i \in BatchIdxs : batches[i].status = "canceled"
    /\ \E i \in BatchIdxs : batches[i].status = "failed"
    /\ \E i \in BatchIdxs : batches[i].status = "success"

\* The places that hold a PR: <<0, k>> for position k of the current batch,
\* <<a, k>> for position k of the batch at position a of the active set.
Holders(id) ==
    {<<0, k>> : k \in {j \in 1..Len(currentBatch.prs) :
                          currentBatch.prs[j] = id}}
    \cup UNION {{<<a, k>> : k \in {j \in 1..Len(batches[activeBatches[a] + 1].prs) :
                                      batches[activeBatches[a] + 1].prs[j] = id}} :
                a \in 1..Len(activeBatches)}

\* C4: between events, each PR is a member of at most one batch among the
\* current batch and the active batches, and at most once in it.
C4_AtMostOneBatch == \A id \in PRIds : Cardinality(Holders(id)) <= 1

\* C4 witness: after a cascade, two active batches and a non-empty current
\* batch hold PRs.
C4_Witness ==
    /\ Len(cascades) > 0
    /\ Len(activeBatches) >= 1
    /\ Len(currentBatch.prs) >= 1
    /\ \E k \in 1..Len(cascades) : Len(cascades[k].prs) >= 2

Arrived(id) ==
    ~ \E k \in 1..Len(items) :
          items[k].value.type = "PR commit" /\ items[k].value.prId = id

CascadesWith(id) ==
    Cardinality({k \in 1..Len(cascades) : id \in Range(cascades[k].prs)})

AdmissionsOf(id) ==
    Cardinality({k \in 1..Len(admissions) : admissions[k].entry.pr = id})

\* C5: prAppearances[id] is 0 before the PR's arrival, and afterwards 1 plus
\* the number of cascades whose cascade set contained the PR; it counts the
\* PR's (re)admissions one by one.
C5_AppearanceCount ==
    \A id \in PRIds :
        /\ prAppearances[id] = AdmissionsOf(id)
        /\ prAppearances[id] =
              IF Arrived(id) THEN 1 + CascadesWith(id) ELSE 0

\* C5 witness: a PR swept up by two cascades.
C5_Witness == \E id \in PRIds : CascadesWith(id) >= 2 /\ Arrived(id)

\* C6: a BatchEntry has isRequeued = false iff the PR's arrival created it;
\* an entry created by resetQueue has isRequeued = true and the PR's
\* original queue time.
C6_RequeuedFlag ==
    \A k \in 1..Len(admissions) :
        LET a == admissions[k]
        IN /\ a.entry.isRequeued = FALSE <=> a.via = "PR commit"
           /\ a.via = "resetQueue" =>
                 /\ a.entry.isRequeued = TRUE
                 /\ a.entry.queueTime = pullRequests[a.entry.pr].queuetime

\* C6 witness: a PR re-admitted twice by resetQueue, whose entries sit in
\* closed batches.
C6_Witness ==
    \E id \in PRIds :
        /\ Cardinality({k \in 1..Len(admissions) :
                           /\ admissions[k].entry.pr = id
                           /\ admissions[k].via = "resetQueue"}) >= 2
        /\ \E i \in BatchIdxs, j \in 1..MaxPRs :
              /\ j <= Len(batches[i].prEntries)
              /\ batches[i].prEntries[j].pr = id
              /\ batches[i].prEntries[j].isRequeued

\* C7: with maxBatchSize = 1 every batch of result.batches holds exactly
\* one PR, as member and as entry.
C7_SingletonBatches ==
    maxBatchSize = 1 =>
        \A i \in BatchIdxs :
            Len(batches[i].prs) = 1 /\ Len(batches[i].prEntries) = 1

\* C7 witness: a returned run with maxBatchSize = 1, a cascade of two PRs
\* and at least three batches.
C7_Witness ==
    /\ Returned
    /\ maxBatchSize = 1
    /\ Len(batches) >= 3
    /\ \E k \in 1..Len(cascades) : Len(cascades[k].prs) >= 2

\* The build-completion events ever scheduled: every insert after the seeding
\* of one "PR commit" per PR schedules a fast or a full build completion.
BuildsScheduled == nextEventId - Cardinality(PRIds)

\* C8: result.Builds holds one record per fast or full build started,
\* 'completed' or 'canceled'.
C8_OneRecordPerBuild == Returned => Len(Builds) = BuildsScheduled

SuccessIds == {batches[i].id : i \in {j \in BatchIdxs :
                                         batches[j].status = "success"}}

\* C9: result.pullRequests holds exactly the 'success' batches, each once,
\* in the order their full builds completed, and none of them is active.
C9_MergedList ==
    /\ Range(mergedBatches) = SuccessIds
    /\ \A j, k \in 1..Len(mergedBatches) :
          j < k =>
             /\ mergedBatches[j] # mergedBatches[k]
             /\ batches[mergedBatches[j] + 1].buildCompleteTime
                   <= batches[mergedBatches[k] + 1].buildCompleteTime
    /\ \A j \in 1..Len(mergedBatches) :
          /\ batches[mergedBatches[j] + 1].buildCompleteTime # Undefined
          /\ batches[mergedBatches[j] + 1].completedTime
                = batches[mergedBatches[j] + 1].buildCompleteTime
    /\ Range(mergedBatches) \cap Range(activeBatches) = {}

\* C9 witness: two batches merged, the later one closed first.
C9_Witness ==
    /\ Len(mergedBatches) >= 2
    /\ mergedBatches[1] > mergedBatches[2]

\* Scenario C: two PRs, maxBatchSize = 2, both fast builds pass, the batch
\* of both PRs closed on size and its full build failed on the first PR.
ScenarioC ==
    /\ Returned
    /\ Cardinality(PRIds) = 2
    /\ maxBatchSize = 2
    /\ pullRequests[0].FastBuildPasses /\ pullRequests[1].FastBuildPasses
    /\ ~pullRequests[0].FullBuildPasses
    /\ Len(batches) >= 1
    /\ batches[1].prs = <<0, 1>>
    /\ batches[1].buildCompleteTime # Undefined

ScenarioCEvictions ==
    /\ batches[1].status = "failed"
    /\ Len(Evictions) = 2
    /\ {Evictions[1].prId, Evictions[2].prId} = {0, 1}
    /\ \A k \in 1..2 :
          /\ Evictions[k].reason = "Full build failed"
          /\ Evictions[k].time = batches[1].failedTime

\* C10 as stated: in Scenario C the batch ends 'failed' with two 'full build
\* failed' evictions, and the second PR is re-admitted (isRequeued = true)
\* at the full-build-failure time.
C10_ScenarioC_Readmitted ==
    ScenarioC =>
        /\ ScenarioCEvictions
        /\ \E k \in 1..Len(admissions) :
              /\ admissions[k].via = "resetQueue"
              /\ admissions[k].entry.pr = 1
              /\ admissions[k].entry.isRequeued
              /\ admissions[k].time = batches[1].failedTime

\* C10 amended: in Scenario C the batch ends 'failed' with two 'Full build
\* failed' evictions at the failure time, and the second PR is not
\* re-admitted: the cascade set is empty and no further batch is created.
C10_ScenarioC_NotReadmitted ==
    ScenarioC =>
        /\ ScenarioCEvictions
        /\ Len(cascades) = 1 /\ cascades[1].prs = <<>>
        /\ cascades[1].time = batches[1].failedTime
        /\ \A k \in 1..Len(admissions) : admissions[k].via = "PR commit"
        /\ prAppearances[1] = 1
        /\ Len(batches) = 1

\* C10 witness: Scenario C has run to its end.
C10_Witness == ScenarioC /\ batches[1].status = "failed"

\* The pending "Fast build completion" events of a PR.
PendingFast(id) ==
    {k \in 1..Len(items) :
        /\ items[k].value.type = "Fast build completion"
        /\ items[k].value.prId = id}

\* The batches closed by closeCurrentBatch: each scheduled one full build.
ClosedIdxs == {i \in BatchIdxs : batches[i].batchCreateTime # Undefined}

\* Scenario B: a single PR whose fast build fails.
ScenarioB == Cardinality(PRIds) = 1 /\ ~pullRequests[0].FastBuildPasses

\* C11: in Scenario B, for every maxBatchSize, no batch holding the PR is
\* ever 'building', no full build is ever scheduled, and exactly one eviction
\* record, with reason 'Fast build failed', is emitted.
C11_ScenarioB_NeverBuilding ==
    ScenarioB =>
        /\ \A i \in BatchIdxs :
              0 \in Range(batches[i].prs) => batches[i].status # "building"
        /\ ClosedIdxs = {}
        /\ Returned =>
              /\ Len(Evictions) = 1
              /\ Evictions[1].prId = 0
              /\ Evictions[1].reason = "Fast build failed"

\* Scenario D: three PRs at strictly increasing queue times, maxBatchSize = 2,
\* the first two closed as one batch at the second PR's arrival; the third
\* arrives after that closure, into an empty current batch.
ScenarioD ==
    /\ Cardinality(PRIds) = 3
    /\ maxBatchSize = 2
    /\ pullRequests[0].queuetime < pullRequests[1].queuetime
    /\ pullRequests[1].queuetime < pullRequests[2].queuetime
    /\ Len(batches) >= 1
    /\ batches[1].prs = <<0, 1>>
    /\ batches[1].batchCreateTime = pullRequests[1].queuetime

\* C12 as stated: in Scenario D, when the simulation ends, the batch
\* containing the third PR is in result.batches with status 'incomplete'.
C12_ScenarioD_Incomplete ==
    (ScenarioD /\ Returned) =>
        \E i \in BatchIdxs :
            2 \in Range(batches[i].prs) /\ batches[i].status = "incomplete"

\* C12 amended: in Scenario D no 'incomplete' batch is emitted; the third PR
\* ends evicted (fast build failed) without a batch of its own, or in a
\* batch closed by closeCurrentBatch whose status is no longer 'building'.
C12_ScenarioD_Closed ==
    (ScenarioD /\ Returned) =>
        /\ \A i \in BatchIdxs : batches[i].status # "incomplete"
        /\ currentBatch.prs = <<>>
        /\ \/ /\ ~pullRequests[2].FastBuildPasses
              /\ \E k \in 1..Len(Evictions) :
                    /\ Evictions[k].prId = 2
                    /\ Evictions[k].reason = "Fast build failed"
           \/ \E i \in ClosedIdxs :
                 /\ 2 \in Range(batches[i].prs)
                 /\ batches[i].status \in {"success", "failed", "canceled"}

\* C12 witness: Scenario D has run to its end with the third PR alone in a
\* closed batch.
C12_Witness ==
    /\ ScenarioD
    /\ Returned
    /\ \E i \in ClosedIdxs : batches[i].prs = <<2>>

\* Scenario A: a single PR whose builds both pass, maxBatchSize = 1.
ScenarioA ==
    /\ Cardinality(PRIds) = 1
    /\ maxBatchSize = 1
    /\ pullRequests[0].FastBuildPasses
    /\ pullRequests[0].FullBuildPasses

\* C13: Scenario A returns exactly one batch, with status 'success', and no
\* eviction, whatever the build times.
C13_ScenarioA_Success ==
    (ScenarioA /\ Returned) =>
        /\ Len(batches) = 1
        /\ batches[1].status = "success"
        /\ batches[1].prs = <<0>>
        /\ Evictions = <<>>

\* C13 witness: Scenario A has returned, with a fast build longer than the
\* full build.
C13_Witness ==
    /\ ScenarioA
    /\ Returned
    /\ pullRequests[0].FastBuildTime > pullRequests[0].FullBuildTime

\* The times at which the reset procedure is tried in C14: time 0 and the
\* time of the next event, the only time at which a handler can call it.
ResetTimes == {0} \cup (IF items = <<>> THEN {} ELSE {items[1].key})

\* C14: with an empty current batch and an empty cascade set, resetQueue
\* changes nothing: the event queue, the active set, every batch, the
\* appearance counters, result.Builds and result.Evictions are as before
\* (only the history of cascade calls grows).
C14_EmptyResetIsNoOp ==
    currentBatch.prs = <<>> =>
        \A t \in ResetTimes :
            [resetQueue(Cur, <<>>, t) EXCEPT !.cascades = cascades] = Cur

\* C14 witness: the handler of a fast-build failure has just run resetQueue
\* with an empty cascade set on an empty current batch, while a batch was
\* active and its full build was pending.
C14_Witness ==
    /\ cascades # <<>>
    /\ cascades[Len(cascades)].prs = <<>>
    /\ currentBatch.prs = <<>>
    /\ activeBatches # <<>>
    /\ \E k \in 1..Len(items) : items[k].value.type = "Full build completion"

\* C15: a configuration error (an empty PR list, or a batch size that is
\* zero or negative) is reported before any event is dispatched: once the
\* Simulate button has been handled, an empty list or a non-positive batch
\* size means the call was rejected, no event was dispatched and no batch
\* was produced.
C15_ConfigErrorRejected ==
    (/\ pc # "ui"
     /\ \/ Cardinality(DOMAIN pullRequests) = 0
        \/ maxBatchSize <= 0)
    => /\ pc = "alert"
       /\ batches = <<>>
       /\ nextBatchId = 0

\* The batches closed by the step: appended to result.batches with a full
\* build scheduled.
NewlyClosed ==
    {i \in (1..Len(batches')) \ (1..Len(batches)) :
        batches'[i].batchCreateTime # Undefined}

\* C16: whenever closeCurrentBatch schedules the full build of a batch, the
\* fast build of every member has completed and passed: none of them fails
\* its fast build and none has a fast build still pending in the queue.
C16_FullBuildAfterFastBuilds ==
    [][\A i \in NewlyClosed :
          \A id \in Range(batches'[i].prs) :
              /\ pullRequests[id].FastBuildPasses
              /\ PendingFast(id)' = {}]_vars

\* The step dispatches the failure of the fast build of a PR that is a
\* member of an active batch.
FastFailureInActive ==
    /\ pc = "loop"
    /\ items # <<>>
    /\ NextEvent.type = "Fast build completion"
    /\ ~NextEvent.passed
    /\ FindActiveWith(Cur, NextEvent.prId) # 0

\* C18: when the fast build of a member of an active batch fails, that batch
\* is 'failed' after the event, with failedTime the event time, whatever the
\* number of its other members.
C18_FastFailureMarksFailed ==
    [][FastFailureInActive =>
          LET batchId == activeBatches[FindActiveWith(Cur, NextEvent.prId)]
          IN /\ batches'[batchId + 1].status = "failed"
             /\ batches'[batchId + 1].failedTime = NextEvent.time]_vars

\* C19: between events the active set holds only 'building' batches.
C19_ActiveAreBuilding ==
    \A id \in Range(activeBatches) : Batch(Cur, id).status = "building"

\* The step dispatches the failure of the full build of an active batch.
FullFailureOfActive ==
    /\ pc = "loop"
    /\ items # <<>>
    /\ NextEvent.type = "Full build completion"
    /\ ~NextEvent.passed
    /\ NextEvent.batchId \in Range(activeBatches)

\* The PRs of the active batches with an id above batchId and of the current
\* batch, before the step.
BehindBatch(batchId) ==
    {id \in PRIds :
        \/ id \in Range(currentBatch.prs)
        \/ \E b \in Range(activeBatches) :
              b > batchId /\ id \in Range(Batch(Cur, b).prs)}

\* C20: when the full build of active batch B fails at time t, the step
\* emits exactly one eviction record (reason 'Full build failed', time t) per
\* member of B, runs one cascade, and re-admits, once each, exactly the
\* members of the active batches with a higher id and of the current batch;
\* no member of B is re-admitted.
C20_FullFailureCascade ==
    [][FullFailureOfActive =>
          LET B == NextEvent.batchId
              t == NextEvent.time
              members == Batch(Cur, B).prs
              readmitted ==
                  [k \in 1..(Len(admissions') - Len(admissions)) |->
                      admissions'[Len(admissions) + k]]
          IN /\ Len(Evictions') = Len(Evictions) + Len(members)
             /\ \A k \in 1..Len(members) :
                   Evictions'[Len(Evictions) + k] =
                       [prId |-> members[k], time |-> t,
                        reason |-> "Full build failed"]
             /\ Len(cascades') = Len(cascades) + 1
             /\ cascades'[Len(cascades')].time = t
             /\ Range(cascades'[Len(cascades')].prs) = BehindBatch(B)
             /\ Len(readmitted) = Cardinality(BehindBatch(B))
             /\ {readmitted[k].entry.pr : k \in 1..Len(readmitted)}
                    = BehindBatch(B)
             /\ \A k \in 1..Len(readmitted) :
                   /\ readmitted[k].via = "resetQueue"
                   /\ readmitted[k].time = t
             /\ Range(members) \cap BehindBatch(B) = {}]_vars

\* C20 witness: a full-build failure has evicted the members of a batch and
\* its cascade has re-admitted the PRs behind it.
C20_Witness ==
    /\ cascades # <<>>
    /\ cascades[Len(cascades)].prs # <<>>
    /\ \E i \in ClosedIdxs :
          /\ batches[i].status = "failed"
          /\ ~batches[i].fullBuildPasses
          /\ batches[i].buildCompleteTime = cascades[Len(cascades)].time
          /\ batches[i].failedTime = cascades[Len(cascades)].time
          /\ \E k \in 1..Len(admissions) :
                /\ admissions[k].via = "resetQueue"
                /\ admissions[k].time = batches[i].failedTime

\* C17: for every PR list and every maxBatchSize >= 1 the simulation
\* terminates: the event queue becomes empty and the result is returned,
\* however many cascades re-admit PRs and schedule new events.
C17_Terminates == <>(pc = "done" /\ items = <<>>)

\* C17 witness: a run has returned after a cascade that re-admitted PRs and
\* after more events than the input seeded and the first admissions made.
C17_Witness ==
    /\ Returned
    /\ \E k \in 1..Len(cascades) : cascades[k].prs # <<>>
    /\ nextEventId > 3 * Cardinality(PRIds)

\* The pending "Full build completion" events of a batch.
PendingFull(batchId) ==
    {items[k].value : k \in {j \in 1..Len(items) :
        /\ items[j].value.type = "Full build completion"
        /\ items[j].value.batchId = batchId}}

\* The step dispatches a failure that runs a cascade, and the batch it is in.
CascadeStep == FastFailureInActive \/ FullFailureOfActive

TriggerBatch ==
    IF FastFailureInActive
    THEN activeBatches[FindActiveWith(Cur, NextEvent.prId)]
    ELSE NextEvent.batchId

\* C21: a cascade triggered by a failure in batch B changes neither the
\* status, nor the membership, nor the pending full-build event of an active
\* batch with a lower id, and leaves it in the active set.
C21_CascadesAreForward ==
    [][CascadeStep =>
          \A b \in Range(activeBatches) :
              b < TriggerBatch =>
                  /\ batches'[b + 1] = batches[b + 1]
                  /\ b \in Range(activeBatches')
                  /\ PendingFull(b)' = PendingFull(b)]_vars

\* C21 witness: a cascade that re-admitted PRs has run for a failed batch
\* while an earlier batch was building, and that batch is building still.
C21_Witness ==
    /\ cascades # <<>>
    /\ cascades[Len(cascades)].prs # <<>>
    /\ \E i, j \in ClosedIdxs :
          /\ i < j
          /\ batches[j].failedTime = cascades[Len(cascades)].time
          /\ batches[i].batchCreateTime < cascades[Len(cascades)].time
          /\ batches[i].status = "building"
          /\ batches[i].id \in Range(activeBatches)
          /\ PendingFull(batches[i].id) # {}

\* The members of the active batches with ids lo..hi, in ascending id.
RECURSIVE ActiveAscending(_, _)
ActiveAscending(lo, hi) ==
    IF lo > hi THEN <<>>
    ELSE (IF lo \in Range(activeBatches) THEN Batch(Cur, lo).prs ELSE <<>>)
         \o ActiveAscending(lo + 1, hi)

\* The order in which the PRs of the cascade set stood before the step: the
\* remaining members of the failed batch (fast-build failure only), the
\* later active batches in ascending id, the current batch.
StoodBefore ==
    (IF FastFailureInActive
     THEN Filter(Batch(Cur, TriggerBatch).prs,
                 Range(Batch(Cur, TriggerBatch).prs) \ {NextEvent.prId})
     ELSE <<>>)
    \o ActiveAscending(TriggerBatch + 1, nextBatchId - 1)
    \o currentBatch.prs

\* The PRs admitted by the step, in admission order, and the members of the
\* batches created by the step followed by those of the new current batch.
AdmittedByStep ==
    [k \in 1..(Len(admissions') - Len(admissions)) |->
        admissions'[Len(admissions) + k].entry.pr]

RECURSIVE MembersFrom(_, _)
MembersFrom(bs, i) ==
    IF i > Len(bs) THEN <<>> ELSE bs[i].prs \o MembersFrom(bs, i + 1)

\* C22: a cascade re-admits the PRs of its set in the order in which they
\* stood before it, and they stand in that order in the batches it creates
\* and in the new current batch: no two PRs are swapped.
C22_ReadmissionKeepsOrder ==
    [][CascadeStep =>
          /\ AdmittedByStep = StoodBefore
          /\ MembersFrom(batches', Len(batches) + 1) \o currentBatch'.prs
                 = StoodBefore]_vars

\* C22 witness: a cascade has re-admitted at least two PRs that came from
\* two different batches.
C22_Witness ==
    /\ cascades # <<>>
    /\ Len(cascades[Len(cascades)].prs) >= 2
    /\ \E i, j \in ClosedIdxs :
          /\ i # j
          /\ batches[i].canceledTime = cascades[Len(cascades)].time
          /\ batches[j].canceledTime = cascades[Len(cascades)].time
          /\ Range(batches[i].prs) \cap Range(cascades[Len(cascades)].prs) # {}
          /\ Range(batches[j].prs) \cap Range(cascades[Len(cascades)].prs) # {}

\* The batches whose status the step changes to 'canceled'.
CanceledByStep ==
    {i \in 1..Len(batches) :
        batches[i].status # "canceled" /\ batches'[i].status = "canceled"}

\* The events the step purges: those pending after the pop, plus those the
\* step inserts, minus those pending after the step.
PurgedByStep ==
    (Len(items) - 1) + (nextEventId' - nextEventId) - Len(items')

\* C23: after a cascade at time t every PR of the cascade set has exactly
\* one pending fast-build event, the new one at t + FastBuildTime; no full
\* build event is pending for a batch the cascade canceled; and one
\* 'canceled' record was appended to result.Builds per purged event.
C23_CancellationIsTotal ==
    [][CascadeStep =>
          LET t == NextEvent.time
              set == Range(cascades'[Len(cascades')].prs)
          IN /\ \A id \in set :
                   /\ Cardinality(PendingFast(id)') = 1
                   /\ \A k \in PendingFast(id)' :
                         /\ items'[k].key = t + pullRequests[id].FastBuildTime
                         /\ items'[k].value.eventId >= nextEventId
             /\ \A i \in CanceledByStep : PendingFull(batches[i].id)' = {}
             /\ Len(Builds') = Len(Builds) + PurgedByStep
             /\ \A k \in (Len(Builds) + 1)..Len(Builds') :
                   Builds'[k].status = "canceled" /\ Builds'[k].time = t]_vars

\* C23 witness: a cascade has canceled a batch, purged events and re-admitted
\* PRs whose new fast builds are pending.
C23_Witness ==
    /\ cascades # <<>>
    /\ cascades[Len(cascades)].prs # <<>>
    /\ \A id \in Range(cascades[Len(cascades)].prs) : PendingFast(id) # {}
    /\ \E i \in ClosedIdxs :
          /\ batches[i].status = "canceled"
          /\ batches[i].canceledTime = cascades[Len(cascades)].time
    /\ \E k \in 1..Len(Builds) :
          /\ Builds[k].type = "full"
          /\ Builds[k].time = cascades[Len(cascades)].time

\* The step dispatches the passing full build of an active batch.
FullSuccessOfActive ==
    /\ pc = "loop"
    /\ items # <<>>
    /\ NextEvent.type = "Full build completion"
    /\ NextEvent.passed
    /\ NextEvent.batchId \in Range(activeBatches)

\* C24: a passing full build of active batch B runs no cascade: it sets B
\* to 'success' with its completion time, appends B to the merged list and
\* removes B from the active set; the other batches, the current batch, the
\* other pending events, the appearance counters, result.Builds and
\* result.Evictions stay as they were.
C24_SuccessChangesOnlyItsBatch ==
    [][FullSuccessOfActive =>
          LET B == NextEvent.batchId
              t == NextEvent.time
          IN /\ batches' = [batches EXCEPT
                               ![B + 1].status = "success",
                               ![B + 1].buildCompleteTime = t,
                               ![B + 1].completedTime = t]
             /\ mergedBatches' = Append(mergedBatches, B)
             /\ activeBatches' =
                    Filter(activeBatches, Range(activeBatches) \ {B})
             /\ items' = Tail(items)
             /\ UNCHANGED <<currentBatch, prAppearances, prEvicted, Builds,
                            Evictions, nextEventId, nextBatchId, admissions,
                            cascades>>]_vars

\* C24 witness: a batch has just succeeded while another batch is building
\* and has its full build pending.
C24_Witness ==
    /\ mergedBatches # <<>>
    /\ \E b \in Range(activeBatches) :
          /\ b > mergedBatches[Len(mergedBatches)]
          /\ Batch(Cur, b).status = "building"
          /\ Batch(Cur, b).batchCreateTime
                 < Batch(Cur, mergedBatches[Len(mergedBatches)]).completedTime
          /\ PendingFull(b) # {}

\* The step dispatches the failure of the fast build of a PR that is in the
\* current batch and in no active batch.
FastFailureInCurrent ==
    /\ pc = "loop"
    /\ items # <<>>
    /\ NextEvent.type = "Fast build completion"
    /\ ~NextEvent.passed
    /\ NextEvent.prId \in Range(currentBatch.prs)
    /\ FindActiveWith(Cur, NextEvent.prId) = 0

\* C25: when the fast build of a PR of the current batch fails, the PR is
\* removed from the current batch's members, entries and fast-build status
\* map; no event is purged and no active batch changes.
C25_FailedPRLeavesCurrentBatch ==
    [][FastFailureInCurrent =>
          LET id == NextEvent.prId
          IN /\ id \notin Range(currentBatch'.prs)
             /\ id \notin DOMAIN currentBatch'.fastBuildStatus
             /\ \A k \in 1..Len(currentBatch'.prEntries) :
                   currentBatch'.prEntries[k].pr # id
             /\ items' = Tail(items)
             /\ activeBatches' = activeBatches
             /\ batches' = batches]_vars

\* C26: between events the current batch is never ready, that is non-empty
\* with the fast build of every member completed and passed: a ready batch
\* has been closed.
C26_ReadyBatchIsClosed == pc = "loop" => ~isCurrentBatchReady(Cur)

\* The queue is in (time, insertion sequence) order: removeMin, which
\* takes the first item, returns the smallest pending event.
QueueInOrder(q) ==
    \A k, l \in 1..Len(q) :
        k < l =>
            /\ q[k].key = q[k].value.time
            /\ \/ q[k].key < q[l].key
               \/ /\ q[k].key = q[l].key
                  /\ q[k].value.eventId < q[l].value.eventId

\* The step dispatches an event.
DispatchStep == pc = "loop" /\ items # <<>>

\* The pending events a cascade over the PRs `set` must purge.
MustPurge(event, set) ==
    \/ /\ event.type = "Fast build completion"
       /\ event.prId \in set
    \/ /\ event.type = "Full build completion"
       /\ event.batchId \in Range(activeBatches)
       /\ Range(Batch(Cur, event.batchId).prs) \cap set # {}

\* The events that were pending before the step and still are, in queue
\* order, and the ones that have to be.
StillPending ==
    Filter(items', {e \in Range(items') : e.value.eventId < nextEventId})

HaveToStay ==
    Filter(Tail(items),
           {e \in Range(Tail(items)) :
               ~(/\ CascadeStep
                 /\ MustPurge(e.value,
                              Range(cascades'[Len(cascades')].prs)))})

\* C27: the queue is always in (time, insertion sequence) order, so that
\* events are dispatched in non-decreasing time and, at equal times, in
\* insertion order; no event dispatched schedules one before its own time;
\* and removeMatching removes exactly the matching events and keeps the
\* others in their order.
C27_DispatchOrder ==
    [][/\ QueueInOrder(items)
       /\ QueueInOrder(items')
       /\ DispatchStep =>
             /\ \A k \in 1..Len(items') : items'[k].key >= NextEvent.time
             /\ StillPending = HaveToStay]_vars

\* C27 witness: two events are pending at the same time, the second of
\* them scheduled by a re-admission, after a cascade has purged events.
C27_Witness ==
    /\ Builds # <<>>
    /\ \E k, l \in 1..Len(items) :
          /\ k < l
          /\ items[k].key = items[l].key
          /\ items[l].value.type = "Fast build completion"
          /\ \E a \in 1..Len(admissions) :
                /\ admissions[a].via = "resetQueue"
                /\ admissions[a].entry.pr = items[l].value.prId
                /\ admissions[a].time < items[l].key

\* The step dispatches a full-build event whose batch is not in the active
\* set.
StaleFullBuild ==
    /\ pc = "loop"
    /\ items # <<>>
    /\ NextEvent.type = "Full build completion"
    /\ NextEvent.batchId \notin Range(activeBatches)

\* C28: dispatching a full-build event whose batch is not in the active set
\* changes no batch, emits no eviction or build record and schedules no
\* event: it only removes the event from the queue.
C28_StaleFullBuildIsNoOp ==
    [][StaleFullBuild =>
          /\ items' = Tail(items)
          /\ UNCHANGED <<nextEventId, nextBatchId, currentBatch,
                         activeBatches, prAppearances, prEvicted, batches,
                         mergedBatches, Builds, Evictions, pc, admissions,
                         cascades>>]_vars

\* The case of C28 never arises: the batch of every pending full-build
\* event is in the active set, because resetQueue purges the event of every
\* batch it removes and a success removes the batch at its own event.
C28_NoStaleFullBuild ==
    \A k \in 1..Len(items) :
        items[k].value.type = "Full build completion"
            => items[k].value.batchId \in Range(activeBatches)

\* The 'incomplete' batches of result.batches.
IncompleteIdxs == {i \in BatchIdxs : batches[i].status = "incomplete"}

\* C29: no batch is 'incomplete' before the function returns; on return the
\* current batch is in result.batches as 'incomplete' if and only if it has
\* members; that batch is the last element, has the highest id, has no
\* batchCreateTime and no full build was ever scheduled for it (every event
\* inserted is an arrival, the fast build of an admission or the full build
\* of a closed batch).
C29_IncompleteBatch ==
    /\ ~Returned => IncompleteIdxs = {}
    /\ Returned =>
          /\ (currentBatch.prs # <<>>) <=> (IncompleteIdxs # {})
          /\ IncompleteIdxs \subseteq {Len(batches)}
          /\ \A i \in IncompleteIdxs :
                /\ batches[i].prs = currentBatch.prs
                /\ batches[i].batchCreateTime = Undefined
                /\ batches[i].id = nextBatchId - 1
                /\ \A j \in BatchIdxs \ {i} : batches[j].id < batches[i].id
          /\ nextEventId = Cardinality(PRIds) + Len(admissions)
                              + Cardinality(ClosedIdxs)

\* C29 witness: the function has returned an 'incomplete' batch after
\* evicting a PR.
C29_Witness ==
    /\ Returned
    /\ IncompleteIdxs # {}
    /\ Evictions # <<>>

\* C30: every closed batch has for fullBuildPasses the AND and for
\* fullBuildTime the maximum over its members; a full build that completed
\* did so at batchCreateTime + fullBuildTime; and a batch is 'success' only
\* if every member's full build passes, its full build having completed.
C30_SuccessMeansAllPass ==
    \A i \in ClosedIdxs :
        LET b == batches[i]
            members == Range(b.prs)
        IN /\ b.fullBuildPasses
                  = (\A id \in members : pullRequests[id].FullBuildPasses)
           /\ \A id \in members : pullRequests[id].FullBuildTime <= b.fullBuildTime
           /\ \E id \in members : pullRequests[id].FullBuildTime = b.fullBuildTime
           /\ b.buildCompleteTime # Undefined =>
                  b.buildCompleteTime = b.batchCreateTime + b.fullBuildTime
           /\ b.status = "success" =>
                  /\ \A id \in members : pullRequests[id].FullBuildPasses
                  /\ b.buildCompleteTime = b.batchCreateTime + b.fullBuildTime
                  /\ b.completedTime = b.buildCompleteTime

\* C30 witness: a batch of two PRs with different full build times, the
\* longer one first, has succeeded.
C30_Witness ==
    \E i \in ClosedIdxs :
        /\ batches[i].status = "success"
        /\ Len(batches[i].prs) = 2
        /\ pullRequests[batches[i].prs[1]].FullBuildTime
               > pullRequests[batches[i].prs[2]].FullBuildTime

C32_EvictedNeverReadmitted ==
    [][\A id \in PRIds :
          HasEviction(id) =>
              /\ prAppearances'[id] = prAppearances[id]
              /\ AdmissionsOf(id)' = AdmissionsOf(id)
              /\ id \in Range(currentBatch'.prs)
                     => id \in Range(currentBatch.prs)]_vars

\* The number of eviction records of the PR.
EvictionsOf(id) ==
    Cardinality({k \in 1..Len(Evictions) : Evictions[k].prId = id})

\* C33: result.Evictions never holds two records with the same prId.
C33_EvictedAtMostOnce == \A id \in PRIds : EvictionsOf(id) <= 1

\* The positions of the pending "Full build completion" events.
PendingFullIdxs ==
    {k \in 1..Len(items) : items[k].value.type = "Full build completion"}

\* C34: between dispatched events, every pending full-build event refers to
\* a batch in the active set, no batch has two pending full-build events,
\* and so the event about to be dispatched is never one the full-build
\* handler would skip as already canceled.
C34_PendingFullBuildsAreActive ==
    /\ \A k \in PendingFullIdxs :
          items[k].value.batchId \in Range(activeBatches)
    /\ \A k, l \in PendingFullIdxs :
          items[k].value.batchId = items[l].value.batchId => k = l
    /\ ~StaleFullBuild

\* C34 witness: a cascade has canceled a batch and purged its full build,
\* and full builds of two batches are pending.
C34_Witness ==
    /\ Cardinality(PendingFullIdxs) >= 2
    /\ \E i \in BatchIdxs : batches[i].status = "canceled"
    /\ \E k \in 1..Len(Builds) :
          Builds[k].type = "full" /\ Builds[k].status = "canceled"

\* C35: for maxBatchSize >= 1, every batch of result.batches has at least
\* one and at most maxBatchSize members, and between events (and on return)
\* the current batch holds fewer than maxBatchSize members.
C35_BatchSizeBounds ==
    maxBatchSize >= 1 =>
        /\ \A i \in BatchIdxs :
              /\ Len(batches[i].prs) >= 1
              /\ Len(batches[i].prs) <= maxBatchSize
        /\ pc \in {"loop", "done"} => Len(currentBatch.prs) < maxBatchSize

\* C35 witness: with maxBatchSize 2, a batch of two has been closed, a
\* batch has been canceled and the current batch holds one PR.
C35_Witness ==
    /\ maxBatchSize = 2
    /\ pc = "loop"
    /\ Len(currentBatch.prs) = 1
    /\ \E i \in BatchIdxs : Len(batches[i].prs) = 2
    /\ \E i \in BatchIdxs : batches[i].status = "canceled"

====
